---- MODULE Spec2Model ----
(***************************************************************************)
(* Packing of cuboid packages into unit load devices (src/main.py):        *)
(* ULD.add_package with its first-fit position search, fitness_function,   *)
(* is_stable and create_initial_population.                                *)
(***************************************************************************)
EXTENDS Integers, Sequences, FiniteSets, TLC

(* ---- bounds of the model ---- *)
MaxDim == 2          \* largest extent of a ULD or a package
MaxVolume == 4       \* largest volume of a ULD
MaxPkgVolume == 2    \* largest volume of a package
MaxWeight == 1       \* largest weight of a package
MaxLimit == 2        \* largest weight_limit of a ULD
MaxEntries == 4      \* direct calls of add_package stop at this many placed entries
MaxEvals == 2        \* calls of fitness_function on one collection
PopulationSize == 2  \* population_size handed to create_initial_population

ULDIds == {"U1", "U2"}
PkgIds == {"P1", "P2"}

\* the caller's lists: ulds_list is in a fixed order, packages_list is shuffled
ulds_list == <<"U1", "U2">>
packages_list == <<"P1", "P2">>

\* Python's None (package.position before placement, a failed search)
None == <<>>

\* extents of the objects of the bounded model
Boxes(vol) ==
  { b \in (1..MaxDim) \X (1..MaxDim) \X (1..MaxDim) : b[1] * b[2] * b[3] <= vol }

VARIABLES
  ulds,    \* ULD id -> the fields of the ULD object
  pkgs,    \* package id -> the fields of the Package object
  last,    \* the last add_package call: its receiver, argument and return value,
           \* and whether it ran find_next_position and evaluated can_fit
  pc,      \* create_initial_population: where the run stands
  rnd,     \* create_initial_population: completed iterations of the outer loop
  order,   \* packages_list as the last random.shuffle left it
  ui,      \* index into ulds_list of the ULD being filled
  pi,      \* index into order of the package offered next
  solution,    \* the list named solution: references to ULD objects
  population,  \* the list named population
  snapshots,   \* history: the objects' fields when each solution was appended
  score,   \* the values the calls of fitness_function have returned, in order
  overlap_ret,  \* <<b>> once do_packages_overlap has returned b, <<>> before
  output   \* the lines generate_output has returned, <<>> before

vars == <<ulds, pkgs, last, pc, rnd, order, ui, pi, solution, population, snapshots,
          score, overlap_ret, output>>
retvars == <<score, overlap_ret, output>>
popvars == <<pc, rnd, order, ui, pi, solution, population, snapshots>>

\* a package constructed with placed = True
NewPackage_placed(b, w, pr) ==
  [length |-> b[1], width |-> b[2], height |-> b[3], weight |-> w, priority |-> pr,
   position |-> None, placed |-> TRUE, uld_id |-> "NONE"]

\* Package.__init__
NewPackage(b, w, pr) ==
  [length |-> b[1], width |-> b[2], height |-> b[3], weight |-> w, priority |-> pr,
   position |-> None, placed |-> FALSE, uld_id |-> "NONE"]

\* ULD.__init__
NewULD(b, lim) ==
  [length |-> b[1], width |-> b[2], height |-> b[3], weight_limit |-> lim,
   packages |-> <<>>, total_weight |-> 0]

\* can_fit without the weight test
can_fit_ignoring_weight(u, p) ==
  /\ pkgs[p].length <= ulds[u].length
  /\ pkgs[p].width <= ulds[u].width
  /\ pkgs[p].height <= ulds[u].height

\* ULD.can_fit
can_fit(u, p) ==
  /\ ulds[u].total_weight + pkgs[p].weight <= ulds[u].weight_limit
  /\ pkgs[p].length <= ulds[u].length
  /\ pkgs[p].width <= ulds[u].width
  /\ pkgs[p].height <= ulds[u].height

\* do_packages_overlap with the faces compared by < and >
do_packages_overlap_touching(pos1, pos2) ==
  ~ (\/ pos1[4] < pos2[1] \/ pos1[1] > pos2[4]
     \/ pos1[5] < pos2[2] \/ pos1[2] > pos2[5]
     \/ pos1[6] < pos2[3] \/ pos1[3] > pos2[6])

\* ULD.do_packages_overlap
do_packages_overlap(pos1, pos2) ==
  ~ (\/ pos1[4] <= pos2[1] \/ pos1[1] >= pos2[4]
     \/ pos1[5] <= pos2[2] \/ pos1[2] >= pos2[5]
     \/ pos1[6] <= pos2[3] \/ pos1[3] >= pos2[6])

\* the far corner computed with length and width exchanged
CuboidAt_swapped(p, x, y, z) ==
  <<x, y, z, x + pkgs[p].width, y + pkgs[p].length, z + pkgs[p].height>>

\* the cuboid of package p with its origin at (x, y, z)
CuboidAt(p, x, y, z) ==
  <<x, y, z, x + pkgs[p].length, y + pkgs[p].width, z + pkgs[p].height>>

\* ULD.is_position_valid
is_position_valid(u, p, x, y, z) ==
  IF /\ x + pkgs[p].length <= ulds[u].length
     /\ y + pkgs[p].width <= ulds[u].width
     /\ z + pkgs[p].height <= ulds[u].height
  THEN \A i \in 1..Len(ulds[u].packages) :
         ~ do_packages_overlap(pkgs[ulds[u].packages[i]].position, CuboidAt(p, x, y, z))
  ELSE FALSE

\* the scan with the loops nested the other way round (z slowest, x fastest)
RECURSIVE ScanFrom_z_outermost(_, _, _)
ScanFrom_z_outermost(u, p, n) ==
  LET L == ulds[u].length
      W == ulds[u].width
      z == n \div (L * W)
      y == (n \div L) % W
      x == n % L
  IN  IF n >= L * W * ulds[u].height THEN None
      ELSE IF is_position_valid(u, p, x, y, z) THEN <<x, y, z>>
      ELSE ScanFrom_z_outermost(u, p, n + 1)

\* the three nested loops of find_next_position, n-th iteration (x slowest, z fastest)
RECURSIVE ScanFrom(_, _, _)
ScanFrom(u, p, n) ==
  LET W == ulds[u].width
      H == ulds[u].height
      x == n \div (W * H)
      y == (n \div H) % W
      z == n % H
  IN  IF n >= ulds[u].length * W * H THEN None
      ELSE IF is_position_valid(u, p, x, y, z) THEN <<x, y, z>>
      ELSE ScanFrom(u, p, n + 1)

\* ULD.find_next_position
find_next_position(u, p) ==
  IF ulds[u].packages = <<>> THEN <<0, 0, 0>> ELSE ScanFrom(u, p, 0)

\* number of entries of all the packages lists
TotalEntries == Len(ulds["U1"].packages) + Len(ulds["U2"].packages)

\* add_package with can_fit tested first and the search made only if it holds
add_package_check_first(u, p) ==
  IF ~ can_fit(u, p)
  THEN /\ UNCHANGED <<ulds, pkgs>>
       /\ last' = [uld |-> u, pkg |-> p, ret |-> FALSE,
                   searched |-> FALSE, checked |-> TRUE]
  ELSE LET position == find_next_position(u, p)
       IN  IF position # None
           THEN /\ pkgs' = [pkgs EXCEPT ![p].position =
                              CuboidAt(p, position[1], position[2], position[3]),
                                        ![p].placed = TRUE,
                                        ![p].uld_id = u]
                /\ ulds' = [ulds EXCEPT ![u].packages = Append(@, p),
                                        ![u].total_weight = @ + pkgs[p].weight]
                /\ last' = [uld |-> u, pkg |-> p, ret |-> TRUE,
                            searched |-> TRUE, checked |-> TRUE]
           ELSE /\ UNCHANGED <<ulds, pkgs>>
                /\ last' = [uld |-> u, pkg |-> p, ret |-> FALSE,
                            searched |-> TRUE, checked |-> TRUE]

\* add_package without the update of total_weight
add_package_weight_not_added(u, p) ==
  LET position == find_next_position(u, p)
  IN  IF position # None /\ can_fit(u, p)
      THEN /\ pkgs' = [pkgs EXCEPT ![p].position =
                         CuboidAt(p, position[1], position[2], position[3]),
                                   ![p].placed = TRUE,
                                   ![p].uld_id = u]
           /\ ulds' = [ulds EXCEPT ![u].packages = Append(@, p)]
           /\ last' = [uld |-> u, pkg |-> p, ret |-> TRUE,
                       searched |-> TRUE, checked |-> TRUE]
      ELSE /\ UNCHANGED <<ulds, pkgs>>
           /\ last' = [uld |-> u, pkg |-> p, ret |-> FALSE,
                       searched |-> TRUE, checked |-> position # None]

\* ULD.add_package: the state change of one call self = u, package = p
add_package(u, p) ==
  LET position == find_next_position(u, p)
  IN  IF position # None /\ can_fit(u, p)
      THEN /\ pkgs' = [pkgs EXCEPT ![p].position =
                         CuboidAt(p, position[1], position[2], position[3]),
                                   ![p].placed = TRUE,
                                   ![p].uld_id = u]
           /\ ulds' = [ulds EXCEPT ![u].packages = Append(@, p),
                                   ![u].total_weight = @ + pkgs[p].weight]
           /\ last' = [uld |-> u, pkg |-> p, ret |-> TRUE,
                       searched |-> TRUE, checked |-> TRUE]
      ELSE /\ UNCHANGED <<ulds, pkgs>>
           /\ last' = [uld |-> u, pkg |-> p, ret |-> FALSE,
                       searched |-> TRUE, checked |-> position # None]

\* the objects as __main__ constructs them, before any call
Objects ==
  /\ ulds \in { [u \in ULDIds |-> NewULD(b[u], l[u])] :
                  b \in [ULDIds -> Boxes(MaxVolume)], l \in [ULDIds -> 1..MaxLimit] }
  /\ pkgs \in { [p \in PkgIds |-> NewPackage(b[p], w[p], p = "P1")] :
                  b \in [PkgIds -> Boxes(MaxPkgVolume)], w \in [PkgIds -> 0..MaxWeight] }

Idle ==
  /\ last = [uld |-> "NONE", pkg |-> "NONE", ret |-> FALSE,
             searched |-> FALSE, checked |-> FALSE]
  /\ pc = "shuffle"
  /\ rnd = 0
  /\ order = packages_list
  /\ ui = 1
  /\ pi = 1
  /\ solution = <<>>
  /\ population = <<>>
  /\ snapshots = <<>>
  /\ score = <<>>
  /\ overlap_ret = <<>>
  /\ output = <<>>

Init == Objects /\ Idle

\* a caller's call of add_package
Call(u, p) ==
  /\ TotalEntries < MaxEntries
  /\ add_package(u, p)
  /\ UNCHANGED <<popvars, retvars>>

Next == \E u \in ULDIds, p \in PkgIds : Call(u, p)

Spec == Init /\ [][Next]_vars

(* ---- create_initial_population ---- *)

Perms(seq) ==
  { f \in [1..Len(seq) -> {seq[i] : i \in 1..Len(seq)}] :
      \A i, j \in 1..Len(seq) : i # j => f[i] # f[j] }

\* random.shuffle(packages_list); solution = []
Shuffle ==
  /\ pc = "shuffle"
  /\ order' \in Perms(order)
  /\ solution' = <<>>
  /\ ui' = 1
  /\ pi' = 1
  /\ pc' = "place"
  /\ UNCHANGED <<ulds, pkgs, last, rnd, population, snapshots, retvars>>

\* one iteration of the inner loop: uld.add_package(package), and the appends
\* that follow the last package of a ULD and the last ULD of a solution
PlaceStep ==
  /\ pc = "place"
  /\ add_package(ulds_list[ui], order[pi])
  /\ UNCHANGED <<order, retvars>>
  /\ IF pi < Len(order)
     THEN /\ pi' = pi + 1
          /\ UNCHANGED <<ui, solution, population, rnd, pc, snapshots>>
     ELSE /\ solution' = Append(solution, ulds_list[ui])
          /\ pi' = 1
          /\ IF ui < Len(ulds_list)
             THEN /\ ui' = ui + 1
                  /\ UNCHANGED <<population, rnd, pc, snapshots>>
             ELSE /\ ui' = 1
                  /\ population' = Append(population, solution')
                  /\ snapshots' = Append(snapshots, [ulds |-> ulds', pkgs |-> pkgs'])
                  /\ rnd' = rnd + 1
                  /\ pc' = IF rnd + 1 < PopulationSize THEN "shuffle" ELSE "done"

NextPop == Shuffle \/ PlaceStep

SpecPop == Init /\ [][NextPop]_vars

(* ---- fitness_function and is_stable ---- *)

\* is_stable with the weights compared by >=
RECURSIVE is_stable_weight_geq_from(_, _, _)
is_stable_weight_geq_from(p, u, i) ==
  IF i > Len(ulds[u].packages) THEN TRUE
  ELSE LET other == ulds[u].packages[i]
       IN  IF /\ pkgs[p].position # None /\ pkgs[other].position # None
              /\ pkgs[p].position[3] > pkgs[other].position[3]
              /\ pkgs[p].weight >= pkgs[other].weight
           THEN FALSE
           ELSE is_stable_weight_geq_from(p, u, i + 1)

\* the loop of is_stable from the i-th entry of uld.packages on
RECURSIVE is_stable_from(_, _, _)
is_stable_from(p, u, i) ==
  IF i > Len(ulds[u].packages) THEN TRUE
  ELSE LET other == ulds[u].packages[i]
       IN  IF /\ pkgs[p].position # None /\ pkgs[other].position # None
              /\ pkgs[p].position[3] > pkgs[other].position[3]
              /\ pkgs[p].weight > pkgs[other].weight
           THEN FALSE
           ELSE is_stable_from(p, u, i + 1)

\* is_stable(package, uld)
is_stable(p, u) == is_stable_from(p, u, 1)

\* any(pkg.priority for pkg in uld.packages)
any_priority(u) == \E i \in 1..Len(ulds[u].packages) : pkgs[ulds[u].packages[i]].priority

\* sum(1 for uld in ulds_list if any(...))
RECURSIVE num_priority_uld(_)
num_priority_uld(ul) ==
  IF ul = <<>> THEN 0
  ELSE (IF any_priority(Head(ul)) THEN 1 ELSE 0) + num_priority_uld(Tail(ul))

\* sum(1 for pkg in packages_list if not pkg.placed and not pkg.priority)
RECURSIVE unplaced_economy_packages(_)
unplaced_economy_packages(pl) ==
  IF pl = <<>> THEN 0
  ELSE (IF ~ pkgs[Head(pl)].placed /\ ~ pkgs[Head(pl)].priority THEN 1 ELSE 0)
       + unplaced_economy_packages(Tail(pl))

\* the inner loop of fitness_function: the unstable entries of one ULD from the i-th on
RECURSIVE stability_count(_, _)
stability_count(u, i) ==
  IF i > Len(ulds[u].packages) THEN 0
  ELSE (IF ~ is_stable(ulds[u].packages[i], u) THEN 1 ELSE 0) + stability_count(u, i + 1)

\* the outer loop of fitness_function: <<weight_penalty, stability_penalty>>
RECURSIVE penalties(_)
penalties(ul) ==
  IF ul = <<>> THEN <<0, 0>>
  ELSE LET u == Head(ul)
           rest == penalties(Tail(ul))
           over == IF ulds[u].total_weight > ulds[u].weight_limit
                   THEN (ulds[u].total_weight - ulds[u].weight_limit) * 10 ELSE 0
       IN  <<over + rest[1], stability_count(u, 1) + rest[2]>>

\* the priority spread penalty applied from one ULD on
priority_spread_penalty_from_one(n) == IF n >= 1 THEN 5000 * n ELSE 0

\* if num_priority_uld > 1: priority_spread_penalty = 5000 * num_priority_uld
priority_spread_penalty(n) == IF n > 1 THEN 5000 * n ELSE 0

\* fitness_function(ulds_list, packages_list)
fitness_function(ul, pl) ==
  LET weight_penalty == penalties(ul)[1]
      stability_penalty == penalties(ul)[2]
      unplaced_packages_penalty == 50 * unplaced_economy_packages(pl)
  IN  0 - weight_penalty - stability_penalty * 5 - unplaced_packages_penalty
        - priority_spread_penalty(num_priority_uld(ul))

\* a call that also clamps an overweight total_weight to the weight_limit
Evaluate_clamping ==
  /\ Len(score) < MaxEvals
  /\ score' = Append(score, fitness_function(ulds_list, packages_list))
  /\ ulds' = [u \in ULDIds |->
                [ulds[u] EXCEPT !.total_weight =
                   IF @ > ulds[u].weight_limit THEN ulds[u].weight_limit ELSE @]]
  /\ UNCHANGED <<pkgs, last, popvars, overlap_ret, output>>

\* a call of fitness_function on the caller's lists
Evaluate ==
  /\ Len(score) < MaxEvals
  /\ score' = Append(score, fitness_function(ulds_list, packages_list))
  /\ UNCHANGED <<ulds, pkgs, last, popvars, overlap_ret, output>>

(* ---- generate_output ---- *)

\* sum(1 for pkg in packages_list if pkg.placed)
RECURSIVE total_packed(_)
total_packed(pl) ==
  IF pl = <<>> THEN 0
  ELSE (IF pkgs[Head(pl)].placed THEN 1 ELSE 0) + total_packed(Tail(pl))

\* the line of one package: its fields in the order of the format string
package_line(p) ==
  IF pkgs[p].placed
  THEN <<p, pkgs[p].uld_id>> \o pkgs[p].position
  ELSE <<p, "NONE", 0 - 1, 0 - 1, 0 - 1, 0 - 1, 0 - 1, 0 - 1>>

\* the loop over packages_list of generate_output
RECURSIVE package_lines(_)
package_lines(pl) ==
  IF pl = <<>> THEN <<>> ELSE <<package_line(Head(pl))>> \o package_lines(Tail(pl))

\* generate_output with the score itself in the summary line
generate_output_with_score(ul, pl) ==
  <<  <<fitness_function(ul, pl), total_packed(pl), num_priority_uld(ul)>>  >>
    \o package_lines(pl)

\* generate_output: the lines, each as the tuple of its comma-separated fields
generate_output(ul, pl) ==
  LET total_cost == 0 - fitness_function(ul, pl)
  IN  <<  <<total_cost, total_packed(pl), num_priority_uld(ul)>>  >> \o package_lines(pl)

\* a call of generate_output on the caller's lists
GenerateOutput ==
  /\ output = <<>>
  /\ output' = generate_output(ulds_list, packages_list)
  /\ UNCHANGED <<ulds, pkgs, last, popvars, score, overlap_ret>>

\* sequences over S of length at most n
SeqsUpTo(S, n) == UNION { [1..k -> S] : k \in 0..n }

Listed(us, p) == \E u \in ULDIds : \E i \in 1..Len(us[u].packages) : us[u].packages[i] = p

\* collections handed to fitness_function: any packages lists, any total_weight;
\* a listed package is placed and has a position, an unlisted one has neither
Collections ==
  /\ ulds \in { [u \in ULDIds |->
                   [NewULD(<<MaxDim, MaxDim, MaxDim>>, l[u])
                      EXCEPT !.packages = ps[u], !.total_weight = t[u]]] :
                  l \in [ULDIds -> 1..MaxLimit],
                  t \in [ULDIds -> 0..MaxLimit + 1],
                  ps \in [ULDIds -> SeqsUpTo(PkgIds, MaxDim)] }
  /\ pkgs \in { [p \in PkgIds |->
                   IF Listed(ulds, p)
                   THEN [NewPackage(<<1, 1, 1>>, w[p], pr[p])
                           EXCEPT !.position = <<0, 0, z[p], 1, 1, z[p] + 1>>,
                                  !.placed = TRUE,
                                  !.uld_id = CHOOSE u \in ULDIds :
                                               \E i \in 1..Len(ulds[u].packages) :
                                                 ulds[u].packages[i] = p]
                   ELSE NewPackage(<<1, 1, 1>>, w[p], pr[p])] :
                  w \in [PkgIds -> 0..MaxWeight],
                  pr \in [PkgIds -> BOOLEAN],
                  z \in [PkgIds -> 0..MaxDim - 1] }

InitFit == Collections /\ Idle

NextFit == Evaluate \/ GenerateOutput

SpecFit == InitFit /\ [][NextFit]_vars

(* ---- do_packages_overlap on any two cuboids ---- *)

\* the well-formed cuboids with corners in 0..MaxDim + 1
Cuboids ==
  { c \in (0..MaxDim) \X (0..MaxDim) \X (0..MaxDim)
          \X (1..MaxDim + 1) \X (1..MaxDim + 1) \X (1..MaxDim + 1) :
      \A k \in 1..3 : c[k] < c[k + 3] }

\* a package recorded at cuboid c
PackageAt(c, pr) ==
  [NewPackage(<<c[4] - c[1], c[5] - c[2], c[6] - c[3]>>, MaxWeight, pr)
     EXCEPT !.position = c, !.placed = TRUE, !.uld_id = "U1"]

\* two packages recorded at any two cuboids, both listed in U1
TwoCuboids ==
  /\ ulds = [u \in ULDIds |->
               IF u = "U1"
               THEN [NewULD(<<MaxDim + 1, MaxDim + 1, MaxDim + 1>>, MaxLimit)
                       EXCEPT !.packages = <<"P1", "P2">>, !.total_weight = 2 * MaxWeight]
               ELSE NewULD(<<MaxDim + 1, MaxDim + 1, MaxDim + 1>>, MaxLimit)]
  /\ pkgs \in { [p \in PkgIds |-> PackageAt(c[p], p = "P1")] : c \in [PkgIds -> Cuboids] }

InitOverlap == TwoCuboids /\ Idle

\* a call of do_packages_overlap on the two recorded cuboids
Overlap ==
  /\ overlap_ret = <<>>
  /\ overlap_ret' = <<do_packages_overlap(pkgs["P1"].position, pkgs["P2"].position)>>
  /\ UNCHANGED <<ulds, pkgs, last, popvars, score, output>>

NextOverlap == Overlap

SpecOverlap == InitOverlap /\ [][NextOverlap]_vars

(* ---- properties ---- *)

Placed(u) == ulds[u].packages
PosOf(p) == pkgs[p].position
Called == last.uld # "NONE"

\* C1: every two distinct packages in the packages list of one ULD have
\* recorded cuboids that do not overlap
NonOverlap ==
  \A u \in ULDIds : \A i, j \in 1..Len(Placed(u)) :
    Placed(u)[i] # Placed(u)[j] =>
      ~ do_packages_overlap(PosOf(Placed(u)[i]), PosOf(Placed(u)[j]))

\* C2: the total_weight of every ULD is at most its weight_limit
CapacityRespected ==
  \A u \in ULDIds : ulds[u].total_weight <= ulds[u].weight_limit

\* a call was refused for its weight alone: a position was found and the extents fit
RefusedForWeight ==
  /\ Called
  /\ ~ last.ret
  /\ find_next_position(last.uld, last.pkg) # None
  /\ pkgs[last.pkg].length <= ulds[last.uld].length
  /\ pkgs[last.pkg].width <= ulds[last.uld].width
  /\ pkgs[last.pkg].height <= ulds[last.uld].height
  /\ ulds[last.uld].total_weight + pkgs[last.pkg].weight > ulds[last.uld].weight_limit
  /\ Placed(last.uld) # <<>>

\* C3: add_package is all-or-nothing: a call that returns False changes no
\* field of any ULD or package; a call that returns True appends the package,
\* adds its weight to total_weight and sets placed, uld_id and the position
\* (origin and origin plus extents), and changes nothing else
AllOrNothing ==
  [][ LET u == last'.uld
          p == last'.pkg
      IN  /\ ~ last'.ret => (ulds' = ulds /\ pkgs' = pkgs)
          /\ last'.ret =>
               /\ ulds'[u].packages = Append(ulds[u].packages, p)
               /\ ulds'[u].total_weight = ulds[u].total_weight + pkgs[p].weight
               /\ \A v \in ULDIds \ {u} : ulds'[v] = ulds[v]
               /\ pkgs'[p].placed
               /\ pkgs'[p].uld_id = u
               /\ Len(pkgs'[p].position) = 6
               /\ pkgs'[p].position[4] = pkgs'[p].position[1] + pkgs[p].length
               /\ pkgs'[p].position[5] = pkgs'[p].position[2] + pkgs[p].width
               /\ pkgs'[p].position[6] = pkgs'[p].position[3] + pkgs[p].height
               /\ <<pkgs'[p].position[1], pkgs'[p].position[2], pkgs'[p].position[3]>>
                    = find_next_position(u, p)
               /\ \A q \in PkgIds \ {p} : pkgs'[q] = pkgs[q] ]_vars

\* a call failed on a ULD that already holds a package placed by an earlier call
FailedAfterSuccess ==
  /\ Called
  /\ ~ last.ret
  /\ Placed(last.uld) # <<>>

\* the origins at which package p lies inside ULD u and meets no recorded cuboid
Meets(a, b) == \A k \in 1..3 : a[k] < b[k + 3] /\ b[k] < a[k + 3]

ValidOrigins(u, p) ==
  { o \in (0..ulds[u].length - 1) \X (0..ulds[u].width - 1) \X (0..ulds[u].height - 1) :
      /\ o[1] + pkgs[p].length <= ulds[u].length
      /\ o[2] + pkgs[p].width <= ulds[u].width
      /\ o[3] + pkgs[p].height <= ulds[u].height
      /\ \A i \in 1..Len(Placed(u)) :
           ~ Meets(PosOf(Placed(u)[i]),
                   <<o[1], o[2], o[3], o[1] + pkgs[p].length,
                     o[2] + pkgs[p].width, o[3] + pkgs[p].height>>) }

LexLeq(a, b) ==
  \/ a[1] < b[1]
  \/ a[1] = b[1] /\ a[2] < b[2]
  \/ a[1] = b[1] /\ a[2] = b[2] /\ a[3] <= b[3]

\* C4: the search returns (0,0,0) for an empty ULD; for a non-empty one it
\* returns the least valid origin in the order x, then y, then z, and None
\* exactly when there is no valid origin
FirstFit ==
  \A u \in ULDIds, p \in PkgIds :
    LET r == find_next_position(u, p)
    IN  IF Placed(u) = <<>> THEN r = <<0, 0, 0>>
        ELSE IF ValidOrigins(u, p) = {} THEN r = None
        ELSE /\ r \in ValidOrigins(u, p)
             /\ \A o \in ValidOrigins(u, p) : LexLeq(r, o)

\* some search on a non-empty ULD chooses among valid origins that the axes
\* order differently, and some search on a non-empty ULD fails
SearchChoosesAndFails ==
  /\ \E u \in ULDIds, p \in PkgIds :
       /\ Placed(u) # <<>>
       /\ \E a, b \in ValidOrigins(u, p) : a[1] < b[1] /\ a[3] > b[3]
  /\ \E u \in ULDIds, p \in PkgIds :
       /\ Placed(u) # <<>>
       /\ can_fit(u, p)
       /\ find_next_position(u, p) = None

\* occurrences of package p in the packages lists of all ULDs
Occurrences(p) ==
  Cardinality(UNION { { <<u, i>> : i \in { j \in 1..Len(Placed(u)) : Placed(u)[j] = p } } :
                      u \in ULDIds })

\* C5: a package occurs at most once in all the packages lists together
PlacedAtMostOnce == \A p \in PkgIds : Occurrences(p) <= 1

\* C6: the ULDs and packages of every solution already in the population are
\* as they were when the solution was appended
CandidatesIndependent ==
  \A k \in 1..Len(population) :
    /\ \A j \in 1..Len(population[k]) :
         ulds[population[k][j]] = snapshots[k].ulds[population[k][j]]
    /\ pkgs = snapshots[k].pkgs

\* C7: a successful add_package of a package whose extents equal the ULD's
\* found the ULD empty and recorded the origin (0,0,0)
FullSizeOnlyIntoEmpty ==
  ( /\ Called
    /\ last.ret
    /\ pkgs[last.pkg].length = ulds[last.uld].length
    /\ pkgs[last.pkg].width = ulds[last.uld].width
    /\ pkgs[last.pkg].height = ulds[last.uld].height )
  => /\ Len(Placed(last.uld)) = 1
     /\ PosOf(last.pkg)[1] = 0 /\ PosOf(last.pkg)[2] = 0 /\ PosOf(last.pkg)[3] = 0

RECURSIVE SumWeights(_)
SumWeights(seq) ==
  IF seq = <<>> THEN 0 ELSE pkgs[Head(seq)].weight + SumWeights(Tail(seq))

\* C8: total_weight equals the sum of the weights of the entries of packages
TotalIsSum ==
  \A u \in ULDIds : ulds[u].total_weight = SumWeights(Placed(u))

\* a ULD holds several entries of positive total weight
SeveralWeighed ==
  \E u \in ULDIds : Len(Placed(u)) >= 2 /\ ulds[u].total_weight >= 2

\* the penalties as the sums and counts of the whole collections
ExcessWeight ==
  LET over(u) == IF ulds[u].total_weight > ulds[u].weight_limit
                 THEN 10 * (ulds[u].total_weight - ulds[u].weight_limit) ELSE 0
  IN  over("U1") + over("U2")

UnstableEntries ==
  Cardinality(UNION { { <<u, i>> : i \in { j \in 1..Len(Placed(u)) :
                                                 ~ is_stable(Placed(u)[j], u) } } :
                      u \in ULDIds })

UnplacedEconomy == Cardinality({ p \in PkgIds : ~ pkgs[p].placed /\ ~ pkgs[p].priority })

PriorityULDs ==
  Cardinality({ u \in ULDIds : \E i \in 1..Len(Placed(u)) : pkgs[Placed(u)[i]].priority })

SpreadPenalty == IF PriorityULDs > 1 THEN 5000 * PriorityULDs ELSE 0

\* C9: the score returned is -(W + 5*S + 50*U + P) and never exceeds 0
ScoreIsNegatedPenalties ==
  \A i \in 1..Len(score) :
    /\ score[i] = 0 - (ExcessWeight + 5 * UnstableEntries + 50 * UnplacedEconomy + SpreadPenalty)
    /\ score[i] <= 0

\* a score with an overweight ULD, an unplaced economy package and priority
\* packages in two ULDs
ScoredAllPenalties ==
  /\ score # <<>>
  /\ ExcessWeight > 0
  /\ UnplacedEconomy > 0
  /\ PriorityULDs = 2
  /\ score[1] < 0 - 10000

\* C10: is_stable(p, u) is False exactly when the packages list of u holds
\* another package whose origin z and weight are both strictly lower than p's
StableIffNoLighterBelow ==
  \A u \in ULDIds, p \in PkgIds :
    is_stable(p, u) <=>
      ~ \E i \in 1..Len(Placed(u)) :
          LET q == Placed(u)[i]
          IN  /\ q # p
              /\ PosOf(p) # None /\ PosOf(q) # None
              /\ PosOf(q)[3] < PosOf(p)[3]
              /\ pkgs[q].weight < pkgs[p].weight

\* a ULD holds a heavier package above a lighter one: the upper one is
\* unstable, the lower one is stable
StableAndUnstable ==
  \E u \in ULDIds, p, q \in PkgIds :
    /\ score # <<>>
    /\ {p, q} \subseteq {Placed(u)[i] : i \in 1..Len(Placed(u))}
    /\ PosOf(p)[3] > PosOf(q)[3]
    /\ pkgs[p].weight > pkgs[q].weight
    /\ ~ is_stable(p, u)
    /\ is_stable(q, u)

\* two cuboids share a face plane on some axis: one's far coordinate is the
\* other's origin coordinate
Touch(a, b) == \E k \in 1..3 : a[k + 3] = b[k] \/ b[k + 3] = a[k]

\* C11: do_packages_overlap(A, B) is true exactly when A.origin < B.far and
\* B.origin < A.far on each axis; it is symmetric, and cuboids that only touch
\* on a face do not overlap
OverlapIsOpenIntersection ==
  overlap_ret # <<>> =>
    /\ overlap_ret[1] <=> Meets(PosOf("P1"), PosOf("P2"))
    /\ overlap_ret[1] <=> do_packages_overlap(PosOf("P2"), PosOf("P1"))
    /\ Touch(PosOf("P1"), PosOf("P2")) => ~ overlap_ret[1]

\* the call was made on two cuboids that touch on a face of the x axis and
\* intersect on the other two axes
TouchingNotOverlapping ==
  /\ overlap_ret = <<FALSE>>
  /\ PosOf("P1")[4] = PosOf("P2")[1]
  /\ \A k \in 2..3 : PosOf("P1")[k] < PosOf("P2")[k + 3] /\ PosOf("P2")[k] < PosOf("P1")[k + 3]

\* C12: a call of fitness_function changes no field of any ULD or package, and
\* a second call on the unmodified collections returns the first call's score
FitnessIsPure ==
  [][ score' # score =>
        /\ ulds' = ulds
        /\ pkgs' = pkgs
        /\ Len(score) >= 1 => score'[Len(score')] = score[Len(score)] ]_vars

\* fitness_function has returned twice on collections that are penalised
ScoredTwice ==
  /\ Len(score) = 2
  /\ score[2] < 0
  /\ ExcessWeight > 0
  /\ UnstableEntries > 0

PlacedCount == Cardinality({ p \in PkgIds : pkgs[p].placed })

\* C13 as stated: the first value of the summary line is the score that
\* fitness_function returns for the same ULDs and packages
SummaryStartsWithScore ==
  output # <<>> => output[1][1] = fitness_function(ulds_list, packages_list)

\* C13 as amended: the first value of the summary line is the negated score,
\* followed by the number of placed packages and the number of ULDs that hold
\* a priority package
SummaryStartsWithCost ==
  output # <<>> =>
    /\ output[1][1] = 0 - fitness_function(ulds_list, packages_list)
    /\ output[1][2] = PlacedCount
    /\ output[1][3] = PriorityULDs

\* an output for collections with a negative score, a placed package and a
\* ULD holding a priority package
OutputWithPenalties ==
  /\ output # <<>>
  /\ fitness_function(ulds_list, packages_list) < 0
  /\ output[1][1] > 0
  /\ PlacedCount = 1
  /\ PriorityULDs = 2

\* C14 as stated: a call whose precondition (can_fit) fails returns False
\* without having run the position search
NoSearchWhenRefused ==
  (Called /\ ~ last.ret /\ ~ can_fit(last.uld, last.pkg)) => ~ last.searched

\* C14 as amended: every call runs the position search first; can_fit is
\* evaluated exactly when the search found a position; a call whose
\* precondition fails returns False
SearchThenCheck ==
  [][ LET u == last'.uld
          p == last'.pkg
      IN  /\ last'.searched
          /\ last'.checked <=> (find_next_position(u, p) # None)
          /\ ~ can_fit(u, p) => ~ last'.ret ]_vars

\* a call on a non-empty ULD was refused by can_fit after the search had
\* found a position
SearchedThenRefused ==
  /\ Called
  /\ ~ last.ret
  /\ Placed(last.uld) # <<>>
  /\ last.searched
  /\ last.checked
  /\ ~ can_fit(last.uld, last.pkg)

\* the packages lists in which package p occurs
Holders(p) == { u \in ULDIds : \E i \in 1..Len(Placed(u)) : Placed(u)[i] = p }

\* C15: the recorded cuboid of every entry of a packages list lies inside
\* that ULD: origin >= 0 and far corner <= the ULD's extent on each axis
PlacedInsideULD ==
  \A u \in ULDIds : \A i \in 1..Len(Placed(u)) :
    LET c == PosOf(Placed(u)[i])
    IN  /\ c[1] >= 0 /\ c[2] >= 0 /\ c[3] >= 0
        /\ c[4] <= ulds[u].length
        /\ c[5] <= ulds[u].width
        /\ c[6] <= ulds[u].height

\* C16: placed is true exactly for the packages that occur in some packages
\* list; a placed package's uld_id names a ULD that lists it and its far corner
\* is its origin plus its extents; an unplaced package has no position and
\* uld_id "NONE"
PlacedFieldsAgree ==
  \A p \in PkgIds :
    /\ pkgs[p].placed <=> Holders(p) # {}
    /\ pkgs[p].placed =>
         /\ pkgs[p].uld_id \in Holders(p)
         /\ Len(PosOf(p)) = 6
         /\ PosOf(p)[4] = PosOf(p)[1] + pkgs[p].length
         /\ PosOf(p)[5] = PosOf(p)[2] + pkgs[p].width
         /\ PosOf(p)[6] = PosOf(p)[3] + pkgs[p].height
    /\ ~ pkgs[p].placed => (PosOf(p) = None /\ pkgs[p].uld_id = "NONE")

\* one package is listed by both ULDs and was last placed off the origin,
\* the other package is unplaced after a refused call
ReplacedAndUnplaced ==
  \E p, q \in PkgIds :
    /\ Holders(p) = ULDIds
    /\ PosOf(p)[1] + PosOf(p)[2] + PosOf(p)[3] > 0
    /\ ~ pkgs[q].placed
    /\ last.pkg = q

====
